---- MODULE Spec2Model ----
(***************************************************************************)
(* Model of the Volt plugin API crate (src/api/rust/src): the identifier   *)
(* validators and the sandboxed config / cache store of VoltPluginAPI      *)
(* (api.rs), and the RwLock-protected PluginRegistry (registry.rs).        *)
(*                                                                         *)
(* A string is a sequence of characters; a character is a one-character    *)
(* TLA+ string, except the non-ASCII character "U+00E9", which is named by *)
(* its code point and is two bytes long in UTF-8.  A path is a sequence of *)
(* components, each a string; <<>> is the filesystem root.                 *)
(***************************************************************************)
EXTENDS Integers, Sequences, FiniteSets, TLC

\* ------------------------------------------------------------------ bounds

\* Every string of at most MaxStrLen characters over InputChars is an input of
\* the validators.
MaxStrLen == 3

\* ------------------------------------------------------------- characters

AsciiLetters ==
    {"a","b","c","d","e","f","g","h","i","j","k","l","m",
     "n","o","p","q","r","s","t","u","v","w","x","y","z",
     "A","B","C","D","E","F","G","H","I","J","K","L","M",
     "N","O","P","Q","R","S","T","U","V","W","X","Y","Z"}

AsciiDigits == {"0","1","2","3","4","5","6","7","8","9"}

\* char::is_ascii_alphanumeric
is_ascii_alphanumeric(c) == c \in AsciiLetters \cup AsciiDigits

\* The characters the inputs are made of: a letter, a digit, the two
\* characters of the plugin-id whitelist, the dot, the two separators, the
\* colon, and one character outside ASCII.
InputChars == {"a", "7", "-", "_", ".", "/", "\\", ":", "U+00E9"}

\* The length of a character's UTF-8 encoding (str::len counts bytes).
Utf8Len(c) == IF c = "U+00E9" THEN 2 ELSE 1

\* str::len: the number of bytes of the string (every character is one byte
\* or two).
ByteLen(s) == Len(s) + Cardinality({i \in 1..Len(s) : Utf8Len(s[i]) = 2})

\* str::contains(char)
ContainsChar(s, c) == \E i \in 1..Len(s) : s[i] = c

\* str::contains(&str) for a two-character pattern
ContainsPair(s, c1, c2) == \E i \in 1..(Len(s) - 1) : s[i] = c1 /\ s[i + 1] = c2

\* str::starts_with(char) and str::ends_with(char)
StartsWith(s, c) == Len(s) > 0 /\ s[1] = c
EndsWith(s, c) == Len(s) > 0 /\ s[Len(s)] = c

Dot == <<".">>
DotDot == <<".", ".">>

\* n copies of the character c
Rep(c, n) == [i \in 1..n |-> c]

RECURSIVE StringsUpTo(_)
\* All strings of at most n characters over InputChars.
StringsUpTo(n) ==
    IF n = 0 THEN {<<>>}
    ELSE LET shorter == StringsUpTo(n - 1)
         IN  shorter \cup {Append(s, c) : s \in shorter, c \in InputChars}

\* Strings around the two length limits: a first character followed by a run
\* of one character, of 63..65 and 254..256 bytes, and runs of the two-byte
\* character whose byte length exceeds a limit that their character count
\* does not.
LongStrings ==
    {<<h>> \o Rep(c, n - 1) : h \in InputChars \ {"U+00E9"}, c \in {"a", "."}, n \in {63, 64, 65, 254, 255, 256}}
      \cup {Rep("U+00E9", n) : n \in {32, 33, 64, 127, 128, 255}}

\* The strings the specification names as examples.
PasswdKey == <<".", ".", "/", ".", ".", "/", "e", "t", "c", "/", "p", "a", "s", "s", "w", "d">>
DotDotCacheKey == <<".", ".", "c", "a", "c", "h", "e">>
TestPluginId == <<"t", "e", "s", "t", "_", "p", "l", "u", "g", "i", "n">>
ExampleStrings == {PasswdKey, DotDotCacheKey, TestPluginId, <<".", "h", "i", "d", "d", "e", "n">>, <<"n", "a", "m", "e", ".">>}

ValidatorInputs == StringsUpTo(MaxStrLen) \cup LongStrings \cup ExampleStrings

\* ----------------------------------------------------------------- results

Ok == [ok |-> TRUE]
Err(msg) == [ok |-> FALSE, err |-> msg]
OkVal(v) == [ok |-> TRUE, val |-> v]

\* -------------------------------------------------------------- validators

MaxPluginIdLen == 64
MaxCacheKeyLen == 255
MaxConfigNameLen == 255

\* validate_plugin_id with the length test off by one (>= for >).
validate_plugin_id_off_by_one(plugin_id) ==
    IF plugin_id = <<>> THEN Err("Plugin ID cannot be empty")
    ELSE IF ByteLen(plugin_id) >= MaxPluginIdLen THEN Err("Plugin ID too long (max 64 characters)")
    ELSE IF plugin_id = Dot \/ plugin_id = DotDot THEN Err("Plugin ID cannot be '.' or '..'")
    ELSE IF ContainsChar(plugin_id, "/") \/ ContainsChar(plugin_id, "\\") THEN Err("Plugin ID cannot contain path separators")
    ELSE IF ~(\A i \in 1..Len(plugin_id) : is_ascii_alphanumeric(plugin_id[i]) \/ plugin_id[i] = "-" \/ plugin_id[i] = "_")
         THEN Err("Plugin ID can only contain letters, numbers, hyphens, and underscores")
    ELSE Ok

validate_plugin_id(plugin_id) ==
    IF plugin_id = <<>> THEN Err("Plugin ID cannot be empty")
    ELSE IF ByteLen(plugin_id) > MaxPluginIdLen THEN Err("Plugin ID too long (max 64 characters)")
    ELSE IF plugin_id = Dot \/ plugin_id = DotDot THEN Err("Plugin ID cannot be '.' or '..'")
    ELSE IF ContainsChar(plugin_id, "/") \/ ContainsChar(plugin_id, "\\") THEN Err("Plugin ID cannot contain path separators")
    ELSE IF ~(\A i \in 1..Len(plugin_id) : is_ascii_alphanumeric(plugin_id[i]) \/ plugin_id[i] = "-" \/ plugin_id[i] = "_")
         THEN Err("Plugin ID can only contain letters, numbers, hyphens, and underscores")
    ELSE Ok

\* validate_cache_key without its traversal and separator tests.
validate_cache_key_no_traversal_check(cache_key) ==
    IF cache_key = <<>> THEN Err("Cache key cannot be empty")
    ELSE IF ByteLen(cache_key) > MaxCacheKeyLen THEN Err("Cache key too long (max 255 characters)")
    ELSE IF ContainsChar(cache_key, ":") \/ StartsWith(cache_key, "/") \/ StartsWith(cache_key, "\\")
         THEN Err("Cache key cannot be an absolute path")
    ELSE Ok

validate_cache_key(cache_key) ==
    IF cache_key = <<>> THEN Err("Cache key cannot be empty")
    ELSE IF ByteLen(cache_key) > MaxCacheKeyLen THEN Err("Cache key too long (max 255 characters)")
    ELSE IF ContainsChar(cache_key, ":") \/ StartsWith(cache_key, "/") \/ StartsWith(cache_key, "\\")
         THEN Err("Cache key cannot be an absolute path")
    ELSE IF cache_key = Dot \/ cache_key = DotDot \/ ContainsPair(cache_key, "/", ".") \/ ContainsPair(cache_key, "\\", ".")
         THEN Err("Cache key cannot contain path traversal components")
    ELSE IF ContainsChar(cache_key, "/") \/ ContainsChar(cache_key, "\\") THEN Err("Cache key cannot contain path separators")
    ELSE Ok

\* validate_config_name without its test of a leading or trailing dot.
validate_config_name_allows_edge_dots(config_name) ==
    IF config_name = <<>> THEN Err("Config name cannot be empty")
    ELSE IF ByteLen(config_name) > MaxConfigNameLen THEN Err("Config name too long (max 255 characters)")
    ELSE IF ContainsChar(config_name, ":") \/ StartsWith(config_name, "/") \/ StartsWith(config_name, "\\")
         THEN Err("Config name cannot be an absolute path")
    ELSE IF config_name = Dot \/ config_name = DotDot \/ ContainsPair(config_name, "/", ".") \/ ContainsPair(config_name, "\\", ".")
         THEN Err("Config name cannot contain path traversal components")
    ELSE IF ContainsChar(config_name, "/") \/ ContainsChar(config_name, "\\") THEN Err("Config name cannot contain path separators")
    ELSE IF ~(\A i \in 1..Len(config_name) : is_ascii_alphanumeric(config_name[i]) \/ config_name[i] = "-" \/ config_name[i] = "_" \/ config_name[i] = ".")
         THEN Err("Config name can only contain letters, numbers, hyphens, underscores, and dots")
    ELSE Ok

validate_config_name(config_name) ==
    IF config_name = <<>> THEN Err("Config name cannot be empty")
    ELSE IF ByteLen(config_name) > MaxConfigNameLen THEN Err("Config name too long (max 255 characters)")
    ELSE IF ContainsChar(config_name, ":") \/ StartsWith(config_name, "/") \/ StartsWith(config_name, "\\")
         THEN Err("Config name cannot be an absolute path")
    ELSE IF config_name = Dot \/ config_name = DotDot \/ ContainsPair(config_name, "/", ".") \/ ContainsPair(config_name, "\\", ".")
         THEN Err("Config name cannot contain path traversal components")
    ELSE IF ContainsChar(config_name, "/") \/ ContainsChar(config_name, "\\") THEN Err("Config name cannot contain path separators")
    ELSE IF StartsWith(config_name, ".") \/ EndsWith(config_name, ".") THEN Err("Config name cannot start or end with a dot")
    ELSE IF ~(\A i \in 1..Len(config_name) : is_ascii_alphanumeric(config_name[i]) \/ config_name[i] = "-" \/ config_name[i] = "_" \/ config_name[i] = ".")
         THEN Err("Config name can only contain letters, numbers, hyphens, underscores, and dots")
    ELSE Ok

\* ------------------------------------------------------------------- paths

Platforms == {"unix", "windows"}

\* std::path::is_separator: '/' everywhere, and '\' on Windows too.
IsSep(c, plat) == c = "/" \/ (plat = "windows" /\ c = "\\")

\* The indices at which a separator-free run of s starts.
RunStarts(s, plat) == {i \in 1..Len(s) : ~IsSep(s[i], plat) /\ (i = 1 \/ IsSep(s[i - 1], plat))}

\* The last index of the run that starts at i.
RunEnd(s, plat, i) == CHOOSE j \in i..Len(s) : (\A k \in i..j : ~IsSep(s[k], plat)) /\ (j = Len(s) \/ IsSep(s[j + 1], plat))

\* The maximal separator-free runs of s, in order.
SplitRuns(s, plat) ==
    LET starts == RunStarts(s, plat)
        nth(k) == CHOOSE i \in starts : Cardinality({j \in starts : j <= i}) = k
    IN  [k \in 1..Cardinality(starts) |-> SubSeq(s, nth(k), RunEnd(s, plat, nth(k)))]

\* Path::components of a relative tail: empty components and "." are dropped,
\* ".." is kept.
Components(s, plat) == SelectSeq(SplitRuns(s, plat), LAMBDA c : c # Dot)

\* A Windows drive prefix "X:" (parse_prefix: an ASCII letter and a colon).
HasDrivePrefix(s, plat) == plat = "windows" /\ Len(s) >= 2 /\ s[1] \in AsciiLetters /\ s[2] = ":"

\* PathBuf::join: a path with a prefix or a root replaces the base; a relative
\* one is appended.  A drive prefix is kept as a first component "X:", which
\* no directory of the model is named.
JoinPath(base, s, plat) ==
    IF HasDrivePrefix(s, plat) THEN <<SubSeq(s, 1, 2)>> \o Components(SubSeq(s, 3, Len(s)), plat)
    ELSE IF s # <<>> /\ IsSep(s[1], plat) THEN Components(s, plat)
    ELSE base \o Components(s, plat)

RECURSIVE Normalize(_)
\* The path with its ".." components resolved against their parents, as the
\* operating system resolves them in a tree without symbolic links.
Normalize(p) ==
    IF p = <<>> THEN <<>>
    ELSE LET front == Normalize(SubSeq(p, 1, Len(p) - 1))
             last_ == p[Len(p)]
         IN  IF last_ = DotDot
             THEN (IF front = <<>> THEN <<>> ELSE SubSeq(front, 1, Len(front) - 1))
             ELSE Append(front, last_)

\* Path::starts_with: a component-wise prefix test.
PathStartsWith(p, base) == Len(p) >= Len(base) /\ SubSeq(p, 1, Len(base)) = base

\* VoltPluginAPI::new: the three roots.
app_data_dir == << <<"a","p","p">> >>
cache_dir == Append(app_data_dir, <<"c","a","c","h","e">>)
config_dir == Append(app_data_dir, <<"c","o","n","f","i","g">>)
PluginsName == <<"p","l","u","g","i","n","s">>

\* The directory each accessor derives for a plugin id.
PluginDataDir(plugin_id, plat) == JoinPath(JoinPath(app_data_dir, PluginsName, plat), plugin_id, plat)
PluginCacheDir(plugin_id, plat) == JoinPath(JoinPath(cache_dir, PluginsName, plat), plugin_id, plat)
PluginConfigDir(plugin_id, plat) == JoinPath(JoinPath(config_dir, PluginsName, plat), plugin_id, plat)

\* -------------------------------------------------------------- filesystem
\* A tree is a function from the paths that exist (physical paths: no ".."
\* and no symbolic link inside them) to nodes.  The root <<>> always exists.

DirNode == [kind |-> "dir"]
FileNode(data) == [kind |-> "file", data |-> data]
LinkNode(target) == [kind |-> "link", target |-> target]

\* How many symbolic links one resolution follows before it fails (ELOOP).
MaxLinkDepth == 2

ParentOf(p) == IF p = <<>> THEN <<>> ELSE SubSeq(p, 1, Len(p) - 1)

RECURSIVE Walk(_, _, _, _)
\* Resolve the components rest from the existing physical directory cur,
\* following symbolic links: [ok, path] with path the physical path reached.
Walk(f, cur, rest, fuel) ==
    IF rest = <<>> THEN [ok |-> TRUE, path |-> cur]
    ELSE IF f[cur].kind # "dir" THEN [ok |-> FALSE, path |-> cur]
    ELSE IF Head(rest) = DotDot THEN Walk(f, ParentOf(cur), Tail(rest), fuel)
    ELSE LET next == Append(cur, Head(rest))
         IN  IF next \notin DOMAIN f THEN [ok |-> FALSE, path |-> next]
             ELSE IF f[next].kind = "link"
                  THEN (IF fuel = 0 THEN [ok |-> FALSE, path |-> next]
                        ELSE Walk(f, <<>>, f[next].target \o Tail(rest), fuel - 1))
             ELSE Walk(f, next, Tail(rest), fuel)

\* Path::canonicalize: the physical path of an existing node, or an error.
canonicalize(f, p) == Walk(f, <<>>, p, MaxLinkDepth)

\* Path::exists: follows links; false for a missing node or a dangling link.
PathExists(f, p) == canonicalize(f, p).ok

RECURSIVE MkdirWalk(_, _, _, _)
\* std::fs::create_dir_all: every missing directory on the way is created;
\* a file on the way is an error.
MkdirWalk(f, cur, rest, fuel) ==
    IF rest = <<>> THEN [ok |-> f[cur].kind = "dir", fs |-> f]
    ELSE IF f[cur].kind # "dir" THEN [ok |-> FALSE, fs |-> f]
    ELSE IF Head(rest) = DotDot THEN MkdirWalk(f, ParentOf(cur), Tail(rest), fuel)
    ELSE LET next == Append(cur, Head(rest))
         IN  IF next \notin DOMAIN f
             THEN MkdirWalk([q \in DOMAIN f \cup {next} |-> IF q = next THEN DirNode ELSE f[q]], next, Tail(rest), fuel)
             ELSE IF f[next].kind = "link"
                  THEN (IF fuel = 0 THEN [ok |-> FALSE, fs |-> f]
                        ELSE MkdirWalk(f, <<>>, f[next].target \o Tail(rest), fuel - 1))
             ELSE MkdirWalk(f, next, Tail(rest), fuel)

create_dir_all(f, p) == MkdirWalk(f, <<>>, p, MaxLinkDepth)

\* std::fs::read and read_to_string: the whole content of an existing file.
fs_read(f, p) ==
    LET r == canonicalize(f, p)
    IN  IF r.ok /\ f[r.path].kind = "file" THEN OkVal(f[r.path].data) ELSE Err("io")

RECURSIVE WriteAt(_, _, _, _)
\* std::fs::write: open with create and truncate, then write all of data.  The
\* parent must exist; a link at the last component is followed; a directory
\* there is an error.
WriteAt(f, p, data, fuel) ==
    IF p = <<>> \/ p[Len(p)] = DotDot THEN [ok |-> FALSE, fs |-> f]
    ELSE LET par == Walk(f, <<>>, ParentOf(p), MaxLinkDepth)
             target == Append(par.path, p[Len(p)])
         IN  IF ~par.ok \/ f[par.path].kind # "dir" THEN [ok |-> FALSE, fs |-> f]
             ELSE IF target \notin DOMAIN f
                  THEN [ok |-> TRUE, fs |-> [q \in DOMAIN f \cup {target} |-> IF q = target THEN FileNode(data) ELSE f[q]]]
             ELSE IF f[target].kind = "dir" THEN [ok |-> FALSE, fs |-> f]
             ELSE IF f[target].kind = "link"
                  THEN (IF fuel = 0 THEN [ok |-> FALSE, fs |-> f] ELSE WriteAt(f, f[target].target, data, fuel - 1))
             ELSE [ok |-> TRUE, fs |-> [f EXCEPT ![target] = FileNode(data)]]

\* fs_write opening the file without truncating it: the bytes of a longer
\* earlier content stay behind the new ones.
fs_write_no_truncate(f, p, data) ==
    LET old == fs_read(f, p)
        kept == IF old.ok /\ Len(old.val) > Len(data) THEN SubSeq(old.val, Len(data) + 1, Len(old.val)) ELSE <<>>
    IN  WriteAt(f, p, data \o kept, MaxLinkDepth)

fs_write(f, p, data) == WriteAt(f, p, data, MaxLinkDepth)

\* The two system calls std::fs::write makes.  File::create opens the file
\* with create and truncate: the file exists and is empty.
file_create(f, p) == WriteAt(f, p, <<>>, MaxLinkDepth)

\* write_all on the descriptor, whose offset is 0: the bytes are laid over
\* what the file holds by then.
write_all(f, p, data) ==
    LET old == fs_read(f, p)
        kept == IF old.ok /\ Len(old.val) > Len(data) THEN SubSeq(old.val, Len(data) + 1, Len(old.val)) ELSE <<>>
    IN  WriteAt(f, p, data \o kept, MaxLinkDepth)

\* std::fs::remove_dir_all: the directory and everything below it; a link at
\* the last component is removed, not followed.
remove_dir_all(f, p) ==
    LET par == canonicalize(f, ParentOf(p))
        victim == IF p = <<>> THEN <<>>
                  ELSE IF p[Len(p)] = DotDot THEN ParentOf(par.path)
                  ELSE Append(par.path, p[Len(p)])
    IN  IF ~par.ok \/ victim \notin DOMAIN f \/ victim = <<>> \/ f[victim].kind = "file" THEN [ok |-> FALSE, fs |-> f]
        ELSE [ok |-> TRUE, fs |-> [q \in {x \in DOMAIN f : ~PathStartsWith(x, victim)} |-> f[q]]]

\* symlink(2), as std::os::unix::fs::symlink calls it: a link to target is made
\* at linkpath, whose parent must exist and which must name nothing yet.
symlink(f, target, linkpath) ==
    LET par == canonicalize(f, ParentOf(linkpath))
        at == Append(par.path, linkpath[Len(linkpath)])
    IN  IF linkpath = <<>> \/ ~par.ok \/ f[par.path].kind # "dir" \/ at \in DOMAIN f THEN [ok |-> FALSE, fs |-> f]
        ELSE [ok |-> TRUE, fs |-> [q \in DOMAIN f \cup {at} |-> IF q = at THEN LinkNode(target) ELSE f[q]]]

\* ------------------------------------------------------- directory accessors
\* Every handler is an operator from the tree (and its arguments) to
\* [res, fs]: the value returned and the tree it leaves.

\* The accessors creating the directory without testing that it exists: the
\* creation fails on a directory that is there already.
PluginDirAccess_no_exists_test(f, plugin_id, dir, msg) ==
    LET v == validate_plugin_id(plugin_id)
        c == create_dir_all(f, dir)
    IN  IF ~v.ok THEN [res |-> v, fs |-> f]
        ELSE IF PathExists(f, dir) \/ ~c.ok THEN [res |-> Err(msg), fs |-> f]
        ELSE [res |-> OkVal(dir), fs |-> c.fs]

\* The shared body of the three accessors: validate, derive, create if absent.
PluginDirAccess(f, plugin_id, dir, msg) ==
    LET v == validate_plugin_id(plugin_id)
    IN  IF ~v.ok THEN [res |-> v, fs |-> f]
        ELSE IF ~PathExists(f, dir)
             THEN LET c == create_dir_all(f, dir)
                  IN  IF c.ok THEN [res |-> OkVal(dir), fs |-> c.fs] ELSE [res |-> Err(msg), fs |-> c.fs]
             ELSE [res |-> OkVal(dir), fs |-> f]

get_plugin_data_dir(f, plugin_id, plat) ==
    PluginDirAccess(f, plugin_id, PluginDataDir(plugin_id, plat), "Failed to create plugin directory")

get_plugin_cache_dir(f, plugin_id, plat) ==
    PluginDirAccess(f, plugin_id, PluginCacheDir(plugin_id, plat), "Failed to create cache directory")

get_plugin_config_dir(f, plugin_id, plat) ==
    PluginDirAccess(f, plugin_id, PluginConfigDir(plugin_id, plat), "Failed to create config directory")

\* ------------------------------------------------------------------- cache

\* read_cache testing the parent of the entry, as write_cache does, instead
\* of the entry itself.
read_cache_checks_parent(f, plugin_id, cache_key, plat) ==
    LET v == validate_cache_key(cache_key)
        d == get_plugin_cache_dir(f, plugin_id, plat)
    IN  IF ~v.ok THEN [res |-> v, fs |-> f]
        ELSE IF ~d.res.ok THEN d
        ELSE LET cache_path == JoinPath(d.res.val, cache_key, plat)
                 canonical_parent == canonicalize(d.fs, ParentOf(cache_path))
                 canonical_cache_dir == canonicalize(d.fs, d.res.val)
             IN  IF canonical_parent.ok /\ canonical_cache_dir.ok
                    /\ ~PathStartsWith(canonical_parent.path, canonical_cache_dir.path)
                 THEN [res |-> Err("Cache path is outside plugin cache directory"), fs |-> d.fs]
                 ELSE IF ~PathExists(d.fs, cache_path)
                      THEN [res |-> Err("Cache entry not found"), fs |-> d.fs]
                 ELSE LET r == fs_read(d.fs, cache_path)
                      IN  [res |-> IF r.ok THEN r ELSE Err("Failed to read cache"), fs |-> d.fs]

read_cache(f, plugin_id, cache_key, plat) ==
    LET v == validate_cache_key(cache_key)
        d == get_plugin_cache_dir(f, plugin_id, plat)
    IN  IF ~v.ok THEN [res |-> v, fs |-> f]
        ELSE IF ~d.res.ok THEN d
        ELSE LET cache_path == JoinPath(d.res.val, cache_key, plat)
                 canonical_cache_path == canonicalize(d.fs, cache_path)
                 canonical_cache_dir == canonicalize(d.fs, d.res.val)
             IN  IF canonical_cache_path.ok /\ canonical_cache_dir.ok
                    /\ ~PathStartsWith(canonical_cache_path.path, canonical_cache_dir.path)
                 THEN [res |-> Err("Cache path is outside plugin cache directory"), fs |-> d.fs]
                 ELSE IF ~PathExists(d.fs, cache_path)
                      THEN [res |-> Err("Cache entry not found"), fs |-> d.fs]
                 ELSE LET r == fs_read(d.fs, cache_path)
                      IN  [res |-> IF r.ok THEN r ELSE Err("Failed to read cache"), fs |-> d.fs]

\* write_cache resolving (and creating) the cache directory before it
\* validates the key.
write_cache_dir_first(f, plugin_id, cache_key, data, plat) ==
    LET v == validate_cache_key(cache_key)
        d == get_plugin_cache_dir(f, plugin_id, plat)
    IN  IF ~d.res.ok THEN d
        ELSE IF ~v.ok THEN [res |-> v, fs |-> d.fs]
        ELSE LET w == fs_write(d.fs, JoinPath(d.res.val, cache_key, plat), data)
             IN  [res |-> IF w.ok THEN Ok ELSE Err("Failed to write cache"), fs |-> w.fs]

write_cache(f, plugin_id, cache_key, data, plat) ==
    LET v == validate_cache_key(cache_key)
        d == get_plugin_cache_dir(f, plugin_id, plat)
    IN  IF ~v.ok THEN [res |-> v, fs |-> f]
        ELSE IF ~d.res.ok THEN d
        ELSE LET cache_path == JoinPath(d.res.val, cache_key, plat)
                 canonical_parent == canonicalize(d.fs, ParentOf(cache_path))
                 canonical_cache_dir == canonicalize(d.fs, d.res.val)
             IN  IF cache_path # <<>> /\ canonical_parent.ok /\ canonical_cache_dir.ok
                    /\ ~PathStartsWith(canonical_parent.path, canonical_cache_dir.path)
                 THEN [res |-> Err("Cache path is outside plugin cache directory"), fs |-> d.fs]
                 ELSE LET w == fs_write(d.fs, cache_path, data)
                      IN  [res |-> IF w.ok THEN Ok ELSE Err("Failed to write cache"), fs |-> w.fs]

\* clear_cache recreating the directory without removing it first.
clear_cache_no_remove(f, plugin_id, plat) ==
    LET d == get_plugin_cache_dir(f, plugin_id, plat)
    IN  IF ~d.res.ok THEN d
        ELSE LET c == create_dir_all(d.fs, d.res.val)
             IN  IF ~c.ok THEN [res |-> Err("Failed to recreate cache directory"), fs |-> c.fs]
                 ELSE [res |-> Ok, fs |-> c.fs]

\* clear_cache removing the directory all plugins' caches live in.
clear_cache_all_plugins(f, plugin_id, plat) ==
    LET d == get_plugin_cache_dir(f, plugin_id, plat)
    IN  IF ~d.res.ok THEN d
        ELSE IF PathExists(d.fs, d.res.val)
             THEN LET r == remove_dir_all(d.fs, ParentOf(d.res.val))
                      c == create_dir_all(r.fs, d.res.val)
                  IN  IF ~r.ok THEN [res |-> Err("Failed to clear cache"), fs |-> r.fs]
                      ELSE IF ~c.ok THEN [res |-> Err("Failed to recreate cache directory"), fs |-> c.fs]
                      ELSE [res |-> Ok, fs |-> c.fs]
             ELSE [res |-> Ok, fs |-> d.fs]

clear_cache(f, plugin_id, plat) ==
    LET d == get_plugin_cache_dir(f, plugin_id, plat)
    IN  IF ~d.res.ok THEN d
        ELSE IF PathExists(d.fs, d.res.val)
             THEN LET r == remove_dir_all(d.fs, d.res.val)
                      c == create_dir_all(r.fs, d.res.val)
                  IN  IF ~r.ok THEN [res |-> Err("Failed to clear cache"), fs |-> r.fs]
                      ELSE IF ~c.ok THEN [res |-> Err("Failed to recreate cache directory"), fs |-> c.fs]
                      ELSE [res |-> Ok, fs |-> c.fs]
             ELSE [res |-> Ok, fs |-> d.fs]

\* -------------------------------------------------------------------- JSON
\* serde_json::Value.  An object is a Map (a BTreeMap<String, Value>): its
\* members are held as a sequence of <<key, value>> pairs, strictly increasing
\* in the key.  Numbers are the integers.

JNull == [t |-> "null"]
JBool(b) == [t |-> "bool", v |-> b]
JNum(n) == [t |-> "num", v |-> n]
JStr(str) == [t |-> "str", v |-> str]
JArr(elems) == [t |-> "arr", v |-> elems]
JObj(members) == [t |-> "obj", v |-> members]

\* serde_json::json!({})
EmptyDocument == JObj(<<>>)

NL == "\n"
Quote == "\""
Backslash == "\\"

\* The characters of the model in code-point order (String's Ord compares
\* bytes); a character outside ASCII sorts after them.
CodeOrder ==
    <<NL, " ", Quote, ",", "-", ".", "/", "0","1","2","3","4","5","6","7","8","9", ":",
      "A","B","C","D","E","F","G","H","I","J","K","L","M","N","O","P","Q","R","S","T","U","V","W","X","Y","Z",
      "[", Backslash, "]", "_",
      "a","b","c","d","e","f","g","h","i","j","k","l","m","n","o","p","q","r","s","t","u","v","w","x","y","z",
      "{", "}">>

Rank(c) == IF \E i \in 1..Len(CodeOrder) : CodeOrder[i] = c
           THEN CHOOSE i \in 1..Len(CodeOrder) : CodeOrder[i] = c
           ELSE Len(CodeOrder) + 1

RECURSIVE StrLess(_, _)
\* a < b as Strings
StrLess(a, b) ==
    IF b = <<>> THEN FALSE
    ELSE IF a = <<>> THEN TRUE
    ELSE IF Head(a) = Head(b) THEN StrLess(Tail(a), Tail(b))
    ELSE Rank(Head(a)) < Rank(Head(b))

RECURSIVE MapInsert(_, _, _)
\* Map::insert: the member under key k is replaced, or added in key order.
MapInsert(members, k, v) ==
    IF members = <<>> THEN << <<k, v>> >>
    ELSE IF Head(members)[1] = k THEN << <<k, v>> >> \o Tail(members)
    ELSE IF StrLess(k, Head(members)[1]) THEN << <<k, v>> >> \o members
    ELSE <<Head(members)>> \o MapInsert(Tail(members), k, v)

DigitChars == <<"0","1","2","3","4","5","6","7","8","9">>

RECURSIVE NatToDec(_)
NatToDec(n) == IF n < 10 THEN <<DigitChars[n + 1]>> ELSE Append(NatToDec(n \div 10), DigitChars[(n % 10) + 1])

\* itoa: the decimal text of an integer
IntToDec(n) == IF n < 0 THEN <<"-">> \o NatToDec(0 - n) ELSE NatToDec(n)

\* EscapeStr writing every character as it is.
EscapeStr_no_escape(str) == str

RECURSIVE EscapeStr(_)
\* format_escaped_str_contents: '"' and '\' are preceded by a backslash, a
\* line feed is written \n, every other character of the model as it is.
EscapeStr(str) ==
    IF str = <<>> THEN <<>>
    ELSE LET c == Head(str)
             e == IF c = Quote THEN <<Backslash, Quote>>
                  ELSE IF c = Backslash THEN <<Backslash, Backslash>>
                  ELSE IF c = NL THEN <<Backslash, "n">>
                  ELSE <<c>>
         IN  e \o EscapeStr(Tail(str))

QuoteStr(str) == <<Quote>> \o EscapeStr(str) \o <<Quote>>

\* PrettyFormatter's indentation: two spaces a level
Indent(level) == Rep(" ", 2 * level)

RECURSIVE Pretty(_, _)
RECURSIVE PrettyElems(_, _, _)
RECURSIVE PrettyMembers(_, _, _)
\* Serialize for Value with PrettyFormatter, at a nesting level.
Pretty(val, level) ==
    CASE val.t = "null" -> <<"n","u","l","l">>
      [] val.t = "bool" -> (IF val.v THEN <<"t","r","u","e">> ELSE <<"f","a","l","s","e">>)
      [] val.t = "num" -> IntToDec(val.v)
      [] val.t = "str" -> QuoteStr(val.v)
      [] val.t = "arr" -> (IF val.v = <<>> THEN <<"[", "]">>
                           ELSE <<"[">> \o PrettyElems(val.v, level + 1, TRUE) \o <<NL>> \o Indent(level) \o <<"]">>)
      [] val.t = "obj" -> (IF val.v = <<>> THEN <<"{", "}">>
                           ELSE <<"{">> \o PrettyMembers(val.v, level + 1, TRUE) \o <<NL>> \o Indent(level) \o <<"}">>)

PrettyElems(elems, level, first) ==
    IF elems = <<>> THEN <<>>
    ELSE (IF first THEN <<NL>> ELSE <<",", NL>>) \o Indent(level) \o Pretty(Head(elems), level)
           \o PrettyElems(Tail(elems), level, FALSE)

PrettyMembers(members, level, first) ==
    IF members = <<>> THEN <<>>
    ELSE (IF first THEN <<NL>> ELSE <<",", NL>>) \o Indent(level) \o QuoteStr(Head(members)[1]) \o <<":", " ">>
           \o Pretty(Head(members)[2], level) \o PrettyMembers(Tail(members), level, FALSE)

\* serde_json::to_string_pretty
to_string_pretty(val) == Pretty(val, 0)

JsonWhitespace == {" ", NL, "\t", "\r"}

RECURSIVE SkipWs(_, _)
\* Deserializer::parse_whitespace: the first index at or after i that holds
\* no whitespace
SkipWs(s, i) == IF i <= Len(s) /\ s[i] \in JsonWhitespace THEN SkipWs(s, i + 1) ELSE i

ParseFail == [ok |-> FALSE]
Parsed(val, next) == [ok |-> TRUE, val |-> val, next |-> next]

\* parse_ident: the literal word at i
ParseLit(s, i, word, val) ==
    IF i + Len(word) - 1 <= Len(s) /\ SubSeq(s, i, i + Len(word) - 1) = word
    THEN Parsed(val, i + Len(word)) ELSE ParseFail

RECURSIVE ParseStrBody(_, _, _)
\* parse_str, from the character after the opening quote: escapes are decoded,
\* a raw control character is an error.
ParseStrBody(s, i, acc) ==
    IF i > Len(s) THEN ParseFail
    ELSE IF s[i] = Quote THEN Parsed(acc, i + 1)
    ELSE IF s[i] = NL THEN ParseFail
    ELSE IF s[i] = Backslash
         THEN (IF i + 1 > Len(s) THEN ParseFail
               ELSE IF s[i + 1] \in {Quote, Backslash, "/"} THEN ParseStrBody(s, i + 2, Append(acc, s[i + 1]))
               ELSE IF s[i + 1] = "n" THEN ParseStrBody(s, i + 2, Append(acc, NL))
               ELSE ParseFail)
    ELSE ParseStrBody(s, i + 1, Append(acc, s[i]))

DigitValue(c) == CHOOSE d \in 0..9 : DigitChars[d + 1] = c

RECURSIVE ParseDigits(_, _, _)
\* the run of digits at i, accumulated in base ten
ParseDigits(s, i, acc) ==
    IF i <= Len(s) /\ s[i] \in AsciiDigits THEN ParseDigits(s, i + 1, 10 * acc + DigitValue(s[i]))
    ELSE Parsed(acc, i)

\* parse_integer: "0" stands alone (a digit after it is an error); a fraction
\* or an exponent would make a float, which the model does not hold.
ParseUnsigned(s, i) ==
    IF i > Len(s) \/ s[i] \notin AsciiDigits THEN ParseFail
    ELSE LET r == IF s[i] = "0" THEN Parsed(0, i + 1) ELSE ParseDigits(s, i, 0)
         IN  IF r.next <= Len(s) /\ s[r.next] \in AsciiDigits \cup {".", "e", "E"} THEN ParseFail ELSE r

ParseNumber(s, i) ==
    IF s[i] = "-"
    THEN LET r == ParseUnsigned(s, i + 1) IN IF r.ok THEN Parsed(JNum(0 - r.val), r.next) ELSE ParseFail
    ELSE LET r == ParseUnsigned(s, i) IN IF r.ok THEN Parsed(JNum(r.val), r.next) ELSE ParseFail

RECURSIVE ParseValue(_, _)
RECURSIVE ParseElems(_, _, _)
RECURSIVE ParseMembers(_, _, _)
\* Deserializer::parse_any (deserialize to a Value) at i
ParseValue(s, i0) ==
    LET i == SkipWs(s, i0)
    IN  IF i > Len(s) THEN ParseFail
        ELSE CASE s[i] = "n" -> ParseLit(s, i, <<"n","u","l","l">>, JNull)
               [] s[i] = "t" -> ParseLit(s, i, <<"t","r","u","e">>, JBool(TRUE))
               [] s[i] = "f" -> ParseLit(s, i, <<"f","a","l","s","e">>, JBool(FALSE))
               [] s[i] = "-" \/ s[i] \in AsciiDigits -> ParseNumber(s, i)
               [] s[i] = Quote -> (LET r == ParseStrBody(s, i + 1, <<>>)
                                   IN  IF r.ok THEN Parsed(JStr(r.val), r.next) ELSE ParseFail)
               [] s[i] = "[" -> (LET j == SkipWs(s, i + 1)
                                 IN  IF j <= Len(s) /\ s[j] = "]" THEN Parsed(JArr(<<>>), j + 1)
                                     ELSE ParseElems(s, j, <<>>))
               [] s[i] = "{" -> (LET j == SkipWs(s, i + 1)
                                 IN  IF j <= Len(s) /\ s[j] = "}" THEN Parsed(JObj(<<>>), j + 1)
                                     ELSE ParseMembers(s, j, <<>>))
               [] OTHER -> ParseFail

\* SeqAccess: a value, then ',' and the next value, or ']'
ParseElems(s, i, acc) ==
    LET r == ParseValue(s, i)
        j == SkipWs(s, r.next)
    IN  IF ~r.ok \/ j > Len(s) THEN ParseFail
        ELSE IF s[j] = "]" THEN Parsed(JArr(Append(acc, r.val)), j + 1)
        ELSE IF s[j] = "," THEN ParseElems(s, j + 1, Append(acc, r.val))
        ELSE ParseFail

\* MapAccess: a string key, ':', a value, then ',' and the next member, or '}';
\* a repeated key replaces the earlier member.
ParseMembers(s, i0, acc) ==
    LET i == SkipWs(s, i0)
        k == IF i <= Len(s) /\ s[i] = Quote THEN ParseStrBody(s, i + 1, <<>>) ELSE ParseFail
        c == IF k.ok THEN SkipWs(s, k.next) ELSE 0
        r == IF k.ok /\ c <= Len(s) /\ s[c] = ":" THEN ParseValue(s, c + 1) ELSE ParseFail
        j == IF r.ok THEN SkipWs(s, r.next) ELSE 0
    IN  IF ~r.ok \/ j > Len(s) THEN ParseFail
        ELSE IF s[j] = "}" THEN Parsed(JObj(MapInsert(acc, k.val, r.val)), j + 1)
        ELSE IF s[j] = "," THEN ParseMembers(s, j + 1, MapInsert(acc, k.val, r.val))
        ELSE ParseFail

\* serde_json::from_str: one value, then only whitespace
from_str(s) ==
    LET r == ParseValue(s, 1)
    IN  IF r.ok /\ SkipWs(s, r.next) > Len(s) THEN OkVal(r.val) ELSE Err("Failed to parse config")

\* ------------------------------------------------------------------ config

\* format!("{}.json", config_name)
ConfigFileName(config_name) == config_name \o <<".", "j", "s", "o", "n">>

\* load_config reading the file without testing that it exists.
load_config_missing_is_error(f, plugin_id, config_name, plat) ==
    LET v == validate_config_name(config_name)
        d == get_plugin_config_dir(f, plugin_id, plat)
    IN  IF ~v.ok THEN [res |-> v, fs |-> f]
        ELSE IF ~d.res.ok THEN d
        ELSE LET content == fs_read(d.fs, JoinPath(d.res.val, ConfigFileName(config_name), plat))
             IN  IF ~content.ok THEN [res |-> Err("Failed to read config"), fs |-> d.fs]
                 ELSE [res |-> from_str(content.val), fs |-> d.fs]

load_config(f, plugin_id, config_name, plat) ==
    LET v == validate_config_name(config_name)
        d == get_plugin_config_dir(f, plugin_id, plat)
    IN  IF ~v.ok THEN [res |-> v, fs |-> f]
        ELSE IF ~d.res.ok THEN d
        ELSE LET config_path == JoinPath(d.res.val, ConfigFileName(config_name), plat)
                 content == fs_read(d.fs, config_path)
             IN  IF ~PathExists(d.fs, config_path) THEN [res |-> OkVal(EmptyDocument), fs |-> d.fs]
                 ELSE IF ~content.ok THEN [res |-> Err("Failed to read config"), fs |-> d.fs]
                 ELSE [res |-> from_str(content.val), fs |-> d.fs]

save_config(f, plugin_id, config_name, config, plat) ==
    LET v == validate_config_name(config_name)
        d == get_plugin_config_dir(f, plugin_id, plat)
    IN  IF ~v.ok THEN [res |-> v, fs |-> f]
        ELSE IF ~d.res.ok THEN d
        ELSE LET config_path == JoinPath(d.res.val, ConfigFileName(config_name), plat)
                 w == fs_write(d.fs, config_path, to_string_pretty(config))
             IN  [res |-> IF w.ok THEN Ok ELSE Err("Failed to write config"), fs |-> w.fs]

\* ---------------------------------------------------------------- registry
\* PluginRegistry: an RwLock around a HashMap from plugin id to plugin.  A
\* plugin is what the registry reads of it: [id, name, enabled].  The map is a
\* function from the registered ids to plugins.

\* PluginRegistry::new
EmptyRegistry == [x \in {} |-> x]

\* HashMap::contains_key / has_plugin's closure
has_plugin(m, plugin_id) == plugin_id \in DOMAIN m

\* HashMap::len / count's body
count(m) == Cardinality(DOMAIN m)

\* enabled_count's body
enabled_count(m) == Cardinality({x \in DOMAIN m : m[x].enabled})

\* HashMap::insert
MapPut(m, k, v) == [x \in DOMAIN m \cup {k} |-> IF x = k THEN v ELSE m[x]]

\* HashMap::remove
MapRemove(m, k) == [x \in DOMAIN m \ {k} |-> m[x]]

RegisterOk(warned) == [ok |-> TRUE, warned |-> warned]
NotFound(plugin_id) == [ok |-> FALSE, err |-> "Plugin not found", id |-> plugin_id]

\* register keeping the entry already stored under the id (first-registered
\* wins).
register_keeps_first(m, plugin) ==
    [res |-> RegisterOk(has_plugin(m, plugin.id)),
     plugins |-> IF has_plugin(m, plugin.id) THEN m ELSE MapPut(m, plugin.id, plugin)]

\* register replacing the whole table by the new entry.
register_evicts_others(m, plugin) ==
    [res |-> RegisterOk(has_plugin(m, plugin.id)), plugins |-> MapPut(EmptyRegistry, plugin.id, plugin)]

\* register's critical section: the overwrite warning is printed when the id
\* is present, then the plugin is inserted under its id.
register(m, plugin) ==
    [res |-> RegisterOk(has_plugin(m, plugin.id)), plugins |-> MapPut(m, plugin.id, plugin)]

\* unregister reporting success for an id that is not registered.
unregister_absent_ok(m, plugin_id) == [res |-> Ok, plugins |-> MapRemove(m, plugin_id)]

\* unregister's critical section
unregister(m, plugin_id) ==
    IF has_plugin(m, plugin_id) THEN [res |-> Ok, plugins |-> MapRemove(m, plugin_id)]
    ELSE [res |-> NotFound(plugin_id), plugins |-> m]

\* The sequences that enumerate the set S, each element once.
Enumerations(S) == {q \in [1..Cardinality(S) -> S] : \A i, j \in 1..Cardinality(S) : q[i] = q[j] => i = j}

\* list_plugins' critical section: the keys, in the map's iteration order,
\* which is any order.
list_plugins(m) == Enumerations(DOMAIN m)

\* A write lock granted while read guards are held.
CanWrite_ignores_readers(writer, readers) == writer = 0

\* RwLock::write succeeds when no guard is held.
CanWrite(writer, readers) == writer = 0 /\ readers = {}

\* RwLock::read succeeds when no write guard is held.
CanRead(writer, readers) == writer = 0

\* =================================================================== state

VARIABLES
    plat,        \* the platform the process runs on
    vin,         \* validators: the input string
    vout,        \* validators: the last result, [op |-> "none"] before a call
    fs,          \* store: the filesystem tree
    last,        \* store: the last call, [op, id, arg, res]
    cache_log,   \* store: per (plugin id, cache key), what the calls so far did to it
    config_log,  \* store: per (plugin id, config name), the document last saved
    calls,       \* store: the number of calls made
    plugins,     \* registry: the map behind the lock
    lock_writer, \* registry: the thread holding the write guard, 0 for none
    lock_readers,\* registry: the threads holding a read guard
    pc,          \* threads: where each thread is in its call
    cur,         \* threads: each thread's call, [op, ...]
    ret,         \* threads: what each thread's call returned
    swept,       \* registry: each thread's sweep, [snap, done, invoked]
    seq_plugins, \* registry: the map a sequential registry holds after the same critical sections, in their order
    seq_ret,     \* registry: what the sequential registry returned to each thread
    reg_calls    \* registry: the number of calls started

valVars == <<vin, vout>>
storeVars == <<fs, last, cache_log, config_log, calls>>
regVars == <<plugins, lock_writer, lock_readers, pc, cur, ret, swept, seq_plugins, seq_ret, reg_calls>>
vars == <<plat, vin, vout, fs, last, cache_log, config_log, calls,
          plugins, lock_writer, lock_readers, pc, cur, ret, swept, seq_plugins, seq_ret, reg_calls>>

NoCall == [op |-> "none"]

\* A tree holding the root only: nothing of the sandbox exists yet.
EmptyTree == [p \in {<<>>} |-> DirNode]

\* ------------------------------------------------ inputs of the store calls

\* The number of store calls a behaviour makes.
MaxCalls == 3

\* Two valid plugin ids and a traversal one.
StorePluginIds == {<<"p">>, <<"q">>, DotDot}
\* The (plugin id, cache key) pairs of the cache calls: two valid keys (the
\* second one traversal-like) for p and one for q, a valid key with the
\* traversal id, and for p a key that names a file of q's directory.
StoreCacheArgs ==
    {<< <<"p">>, <<"k">> >>, << <<"p">>, <<".", ".", "k">> >>, << <<"q">>, <<"k">> >>,
     << DotDot, <<"k">> >>, << <<"p">>, <<".", ".", "/", "q", "/", "k">> >>}
\* The (plugin id, config name) pairs of the config calls: two valid names
\* for p and one for q, a valid name with the traversal id, and for p a
\* hidden-file name.
StoreConfigArgs ==
    {<< <<"p">>, <<"s">> >>, << <<"p">>, <<"s", ".", "b">> >>, << <<"q">>, <<"s">> >>,
     << DotDot, <<"s">> >>, << <<"p">>, <<".", "s">> >>}
\* Cache blobs: the empty one, one byte, two bytes.
StoreBlobs == {<<>>, <<0>>, <<255, 0>>}
\* Documents: the empty object, a scalar, and an object whose members need
\* ordering, nesting and escaping.
StoreDocuments ==
    {EmptyDocument,
     JNull,
     JObj(<< << <<"a">>, JArr(<<JBool(TRUE), JNum(-10)>>) >>, << <<"k", Quote>>, JStr(<<"q", Backslash, NL>>) >> >>)}

NeverWritten == [st |-> "never"]
Written(data) == [st |-> "written", data |-> data]
Cleared == [st |-> "cleared"]
NeverSaved == [st |-> "never"]
Saved(doc, over) == [st |-> "saved", doc |-> doc, over |-> over]

InitIdleVal == vin = <<>> /\ vout = NoCall

InitIdleStore ==
    /\ fs = EmptyTree
    /\ last = NoCall
    /\ cache_log = [e \in StoreCacheArgs |-> NeverWritten]
    /\ config_log = [e \in StoreConfigArgs |-> NeverSaved]
    /\ calls = 0

\* ---------------------------------------------- inputs of the registry calls

\* The number of threads that call the registry.
NumThreads == 2
\* The number of registry calls a behaviour starts.
MaxRegCalls == 3

Threads == 1..NumThreads

\* Two plugins that share the id "x", one with the id "y", and one whose id
\* is "..".
RegPlugins ==
    {[id |-> <<"x">>, name |-> "A", enabled |-> TRUE],
     [id |-> <<"x">>, name |-> "B", enabled |-> FALSE],
     [id |-> <<"y">>, name |-> "C", enabled |-> TRUE],
     [id |-> DotDot, name |-> "D", enabled |-> FALSE]}

RegIds == {p.id : p \in RegPlugins}

RegCalls ==
    {[op |-> "register", plugin |-> p] : p \in RegPlugins}
      \cup {[op |-> o, id |-> x] : o \in {"unregister", "has_plugin"}, x \in RegIds}
      \cup {[op |-> o] : o \in {"list_plugins", "count", "enabled_count", "initialize_all", "shutdown_all"}}

WriteOps == {"register", "unregister"}
SweepOps == {"initialize_all", "shutdown_all"}

NoRet == [none |-> TRUE]
\* A sweep's progress: the ids list_plugins returned, the ids the loop has
\* reported, and the ids on whose plugin a method has been called.
NoSweep == [snap |-> <<>>, done |-> <<>>, invoked |-> <<>>]

\* PluginRegistry::new, before any call.
InitReg ==
    /\ plugins = EmptyRegistry
    /\ lock_writer = 0
    /\ lock_readers = {}
    /\ pc = [t \in Threads |-> "idle"]
    /\ cur = [t \in Threads |-> NoCall]
    /\ ret = [t \in Threads |-> NoRet]
    /\ swept = [t \in Threads |-> NoSweep]
    /\ seq_plugins = EmptyRegistry
    /\ seq_ret = [t \in Threads |-> NoRet]
    /\ reg_calls = 0

InitIdleReg == InitReg

\* ------------------------------------------------------------ store actions

Call(op, id, arg, r) ==
    /\ calls < MaxCalls
    /\ calls' = calls + 1
    /\ fs' = r.fs
    /\ last' = [op |-> op, id |-> id, arg |-> arg, res |-> r.res]
    /\ UNCHANGED <<plat, valVars, regVars>>

GetPluginDataDir ==
    \E id \in StorePluginIds :
        /\ Call("get_plugin_data_dir", id, <<>>, get_plugin_data_dir(fs, id, plat))
        /\ UNCHANGED <<cache_log, config_log>>

GetPluginCacheDir ==
    \E id \in StorePluginIds :
        /\ Call("get_plugin_cache_dir", id, <<>>, get_plugin_cache_dir(fs, id, plat))
        /\ UNCHANGED <<cache_log, config_log>>

GetPluginConfigDir ==
    \E id \in StorePluginIds :
        /\ Call("get_plugin_config_dir", id, <<>>, get_plugin_config_dir(fs, id, plat))
        /\ UNCHANGED <<cache_log, config_log>>

ReadCache ==
    \E a \in StoreCacheArgs :
        /\ Call("read_cache", a[1], a[2], read_cache(fs, a[1], a[2], plat))
        /\ UNCHANGED <<cache_log, config_log>>

WriteCache ==
    \E a \in StoreCacheArgs, data \in StoreBlobs :
        LET r == write_cache(fs, a[1], a[2], data, plat)
        IN  /\ Call("write_cache", a[1], a[2], r)
            /\ cache_log' = IF r.res.ok THEN [cache_log EXCEPT ![a] = Written(data)] ELSE cache_log
            /\ UNCHANGED config_log

ClearCache ==
    \E id \in StorePluginIds :
        LET r == clear_cache(fs, id, plat)
        IN  /\ Call("clear_cache", id, <<>>, r)
            /\ cache_log' = IF r.res.ok
                            THEN [e \in DOMAIN cache_log |->
                                    IF e[1] = id /\ cache_log[e].st = "written" THEN Cleared ELSE cache_log[e]]
                            ELSE cache_log
            /\ UNCHANGED config_log

LoadConfig ==
    \E a \in StoreConfigArgs :
        /\ Call("load_config", a[1], a[2], load_config(fs, a[1], a[2], plat))
        /\ UNCHANGED <<cache_log, config_log>>

SaveConfig ==
    \E a \in StoreConfigArgs, doc \in StoreDocuments :
        LET r == save_config(fs, a[1], a[2], doc, plat)
        IN  /\ Call("save_config", a[1], a[2], r)
            /\ config_log' = IF r.res.ok THEN [config_log EXCEPT ![a] = Saved(doc, config_log[a].st = "saved")] ELSE config_log
            /\ UNCHANGED cache_log

Init ==
    /\ plat \in Platforms
    /\ InitIdleVal
    /\ InitIdleStore
    /\ InitIdleReg

Next ==
    \/ GetPluginDataDir
    \/ GetPluginCacheDir
    \/ GetPluginConfigDir
    \/ ReadCache
    \/ WriteCache
    \/ ClearCache
    \/ LoadConfig
    \/ SaveConfig

\* The store: any sequence of calls of the sandboxed API on one tree.
Spec == Init /\ [][Next]_vars

\* ------------------------------------------- the store beside planted links
\* The sandbox directories are ordinary directories of the host: whoever can
\* write to one (a plugin is native code) can make a symbolic link in it.

\* The number of symbolic links that exist at a time.
MaxLinks == 1

\* What lies outside the sandbox: a directory, a file of bytes and a file of
\* JSON text, and a name in the directory that nothing bears.
OutsideDir == << <<"d">> >>
OutsideBlob == << <<"o">> >>
OutsideDoc == << <<"j">> >>
OutsideMissing == Append(OutsideDir, <<"n">>)
OutsideBytes == <<7>>
OutsideText == <<"7">>

OutsideTree ==
    [q \in {<<>>, OutsideDir, OutsideBlob, OutsideDoc} |->
        IF q = OutsideBlob THEN FileNode(OutsideBytes)
        ELSE IF q = OutsideDoc THEN FileNode(OutsideText)
        ELSE DirNode]

\* The links planted, as <<linkpath, target>>: under plugin p's cache key "k"
\* a link to the outside file, to the missing outside name, and to the
\* sibling key "..k"; plugin p's config file "s.json" as a link to the outside
\* JSON file; plugin p's cache directory itself as a link to the outside
\* directory.
LinkChoices ==
    {<< Append(PluginCacheDir(<<"p">>, "unix"), <<"k">>), OutsideBlob >>,
     << Append(PluginCacheDir(<<"p">>, "unix"), <<"k">>), OutsideMissing >>,
     << Append(PluginCacheDir(<<"p">>, "unix"), <<"k">>), Append(PluginCacheDir(<<"p">>, "unix"), <<".", ".", "k">>) >>,
     << Append(PluginConfigDir(<<"p">>, "unix"), ConfigFileName(<<"s">>)), OutsideDoc >>,
     << PluginCacheDir(<<"p">>, "unix"), OutsideDir >>}

Links(f) == {q \in DOMAIN f : f[q].kind = "link"}

\* A link is planted where its parent directory exists and nothing is yet.
\* It counts as a call on the tree, made from outside the API.
PlantLink ==
    \E c \in LinkChoices :
        LET r == symlink(fs, c[2], c[1])
        IN  /\ Cardinality(Links(fs)) < MaxLinks
            /\ r.ok
            /\ Call("symlink", <<>>, c, [res |-> Ok, fs |-> r.fs])
            /\ UNCHANGED <<cache_log, config_log>>

InitLinks ==
    /\ plat = "unix"
    /\ InitIdleVal
    /\ InitIdleReg
    /\ fs = OutsideTree
    /\ last = NoCall
    /\ cache_log = [e \in StoreCacheArgs |-> NeverWritten]
    /\ config_log = [e \in StoreConfigArgs |-> NeverSaved]
    /\ calls = 0

NextLinks ==
    \/ GetPluginDataDir
    \/ GetPluginCacheDir
    \/ GetPluginConfigDir
    \/ ReadCache
    \/ WriteCache
    \/ ClearCache
    \/ LoadConfig
    \/ SaveConfig
    \/ PlantLink

\* The store in a tree where symbolic links are planted between the calls.
SpecLinks == InitLinks /\ [][NextLinks]_vars

\* --------------------------------------------------------- registry actions
\* A call is: take the lock (read or write), run the critical section, drop
\* the guard on return.  The sweeps call list_plugins and then iterate over
\* the ids it returned, holding no guard.

\* Thread t's access to the map overlaps an access of another thread that
\* conflicts with it: Rust calls this a data race, and its outcome is not
\* defined.  write tells whether t's access writes.
Race(t, write) ==
    \E u \in Threads \ {t} :
        /\ pc[u] = "body"
        /\ u = lock_writer \/ u \in lock_readers
        /\ write \/ cur[u].op \in WriteOps

\* What a racing access may leave or return.
AnyRegistry == UNION {[S -> RegPlugins] : S \in SUBSET RegIds}
AnyRead == {OkVal(<<x, y>>) : x \in RegIds, y \in RegIds} \cup {OkVal(n) : n \in 0..Cardinality(RegIds)} \cup {[val |-> b] : b \in BOOLEAN}

\* The sequential registry: what a call does to the map and returns when
\* nothing runs beside it.  list_plugins returns the set of ids, in no order.
SeqApply(m, c) ==
    CASE c.op = "register" -> [plugins |-> [x \in DOMAIN m \cup {c.plugin.id} |-> IF x = c.plugin.id THEN c.plugin ELSE m[x]],
                               res |-> Ok]
      [] c.op = "unregister" -> (IF c.id \in DOMAIN m
                                 THEN [plugins |-> [x \in DOMAIN m \ {c.id} |-> m[x]], res |-> Ok]
                                 ELSE [plugins |-> m, res |-> NotFound(c.id)])
      [] c.op = "has_plugin" -> [plugins |-> m, res |-> [val |-> c.id \in DOMAIN m]]
      [] c.op = "count" -> [plugins |-> m, res |-> OkVal(Cardinality(DOMAIN m))]
      [] c.op = "enabled_count" -> [plugins |-> m, res |-> OkVal(Cardinality({x \in DOMAIN m : m[x].enabled}))]
      [] OTHER -> [plugins |-> m, res |-> OkVal(DOMAIN m)]

StartCall(t) ==
    /\ pc[t] = "idle"
    /\ reg_calls < MaxRegCalls
    /\ \E c \in RegCalls : cur' = [cur EXCEPT ![t] = c]
    /\ pc' = [pc EXCEPT ![t] = "lock"]
    /\ ret' = [ret EXCEPT ![t] = NoRet]
    /\ seq_ret' = [seq_ret EXCEPT ![t] = NoRet]
    /\ swept' = [swept EXCEPT ![t] = NoSweep]
    /\ reg_calls' = reg_calls + 1
    /\ UNCHANGED <<plugins, lock_writer, lock_readers, seq_plugins, plat, valVars, storeVars>>

\* self.plugins.write()
AcquireWrite(t) ==
    /\ pc[t] = "lock"
    /\ cur[t].op \in WriteOps
    /\ CanWrite(lock_writer, lock_readers)
    /\ lock_writer' = t
    /\ pc' = [pc EXCEPT ![t] = "body"]
    /\ UNCHANGED <<plugins, lock_readers, cur, ret, swept, seq_plugins, seq_ret, reg_calls, plat, valVars, storeVars>>

\* self.plugins.read()
AcquireRead(t) ==
    /\ pc[t] = "lock"
    /\ cur[t].op \notin WriteOps
    /\ CanRead(lock_writer, lock_readers)
    /\ lock_readers' = lock_readers \cup {t}
    /\ pc' = [pc EXCEPT ![t] = "body"]
    /\ UNCHANGED <<plugins, lock_writer, cur, ret, swept, seq_plugins, seq_ret, reg_calls, plat, valVars, storeVars>>

\* The critical section of a call that writes: r is what the code computes.
WriteBody(t, r) ==
    /\ pc[t] = "body"
    /\ plugins' \in (IF Race(t, TRUE) THEN AnyRegistry ELSE {r.plugins})
    /\ ret' = [ret EXCEPT ![t] = r.res]
    /\ seq_plugins' = SeqApply(seq_plugins, cur[t]).plugins
    /\ seq_ret' = [seq_ret EXCEPT ![t] = SeqApply(seq_plugins, cur[t]).res]
    /\ pc' = [pc EXCEPT ![t] = "unlock"]
    /\ UNCHANGED <<lock_writer, lock_readers, cur, swept, reg_calls, plat, valVars, storeVars>>

\* The critical section of a call that reads: results are what the code may
\* return.
ReadBody(t, results) ==
    /\ pc[t] = "body"
    /\ \E r \in (IF Race(t, FALSE) THEN AnyRead ELSE results) : ret' = [ret EXCEPT ![t] = r]
    /\ seq_ret' = [seq_ret EXCEPT ![t] = SeqApply(seq_plugins, cur[t]).res]
    /\ pc' = [pc EXCEPT ![t] = "unlock"]
    /\ UNCHANGED <<plugins, lock_writer, lock_readers, cur, swept, seq_plugins, reg_calls, plat, valVars, storeVars>>

RegisterBody(t) == cur[t].op = "register" /\ WriteBody(t, register(plugins, cur[t].plugin))

UnregisterBody(t) == cur[t].op = "unregister" /\ WriteBody(t, unregister(plugins, cur[t].id))

\* list_plugins, also as the first statement of initialize_all and
\* shutdown_all
ListBody(t) == cur[t].op \in {"list_plugins"} \cup SweepOps /\ ReadBody(t, {OkVal(q) : q \in list_plugins(plugins)})

CountBody(t) == cur[t].op = "count" /\ ReadBody(t, {OkVal(count(plugins))})

HasPluginBody(t) == cur[t].op = "has_plugin" /\ ReadBody(t, {[val |-> has_plugin(plugins, cur[t].id)]})

EnabledCountBody(t) == cur[t].op = "enabled_count" /\ ReadBody(t, {OkVal(enabled_count(plugins))})

\* The call returning with its guard kept alive (leaked): the lock stays
\* taken.
Release_keeps_guard(t) ==
    /\ pc[t] = "unlock"
    /\ pc' = [pc EXCEPT ![t] = IF cur[t].op \in SweepOps THEN "sweep" ELSE "idle"]
    /\ swept' = [swept EXCEPT ![t] = IF cur[t].op \in SweepOps THEN [snap |-> ret[t].val, done |-> <<>>, invoked |-> <<>>] ELSE NoSweep]
    /\ UNCHANGED <<plugins, lock_writer, lock_readers, cur, ret, seq_plugins, seq_ret, reg_calls, plat, valVars, storeVars>>

\* The guard is dropped as the call (or list_plugins inside a sweep) returns.
Release(t) ==
    /\ pc[t] = "unlock"
    /\ lock_writer' = IF lock_writer = t THEN 0 ELSE lock_writer
    /\ lock_readers' = lock_readers \ {t}
    /\ pc' = [pc EXCEPT ![t] = IF cur[t].op \in SweepOps THEN "sweep" ELSE "idle"]
    /\ swept' = [swept EXCEPT ![t] = IF cur[t].op \in SweepOps THEN [snap |-> ret[t].val, done |-> <<>>, invoked |-> <<>>] ELSE NoSweep]
    /\ UNCHANGED <<plugins, cur, ret, seq_plugins, seq_ret, reg_calls, plat, valVars, storeVars>>

\* The loop reading the live registry at each turn: an id registered by now
\* and not yet reported is taken before the next id of the snapshot.
SweepStep_reads_live_registry(t) ==
    /\ pc[t] = "sweep"
    /\ Len(swept[t].done) < Len(swept[t].snap)
    /\ LET fresh == DOMAIN plugins \ {swept[t].done[i] : i \in 1..Len(swept[t].done)}
       IN  \E x \in (IF fresh # {} THEN fresh ELSE {swept[t].snap[Len(swept[t].done) + 1]}) :
               swept' = [swept EXCEPT ![t].done = Append(@, x)]
    /\ UNCHANGED <<plugins, lock_writer, lock_readers, pc, cur, ret, seq_plugins, seq_ret, reg_calls, plat, valVars, storeVars>>

\* One turn of the loop of initialize_all / shutdown_all: the next id of the
\* snapshot is reported as initialized / shut down.  The body is the println!
\* alone: the plugin is not looked up and none of its methods is called.
SweepStep(t) ==
    /\ pc[t] = "sweep"
    /\ Len(swept[t].done) < Len(swept[t].snap)
    /\ swept' = [swept EXCEPT ![t].done = Append(@, swept[t].snap[Len(@) + 1])]
    /\ UNCHANGED <<plugins, lock_writer, lock_readers, pc, cur, ret, seq_plugins, seq_ret, reg_calls, plat, valVars, storeVars>>

\* The loop is over: Ok(())
SweepReturn(t) ==
    /\ pc[t] = "sweep"
    /\ Len(swept[t].done) = Len(swept[t].snap)
    /\ ret' = [ret EXCEPT ![t] = Ok]
    /\ pc' = [pc EXCEPT ![t] = "idle"]
    /\ UNCHANGED <<plugins, lock_writer, lock_readers, cur, swept, seq_plugins, seq_ret, reg_calls, plat, valVars, storeVars>>

InitRegSpec ==
    /\ plat = "unix"
    /\ InitIdleVal
    /\ InitIdleStore
    /\ InitReg

NextReg ==
    \/ \E t \in Threads : StartCall(t)
    \/ \E t \in Threads : AcquireWrite(t)
    \/ \E t \in Threads : AcquireRead(t)
    \/ \E t \in Threads : RegisterBody(t)
    \/ \E t \in Threads : UnregisterBody(t)
    \/ \E t \in Threads : ListBody(t)
    \/ \E t \in Threads : CountBody(t)
    \/ \E t \in Threads : HasPluginBody(t)
    \/ \E t \in Threads : EnabledCountBody(t)
    \/ \E t \in Threads : Release(t)
    \/ \E t \in Threads : SweepStep(t)
    \/ \E t \in Threads : SweepReturn(t)

\* The registry: threads calling one shared PluginRegistry.
SpecReg == InitRegSpec /\ [][NextReg]_vars

\* What thread t does once it has called: it is scheduled until it returns.
ThreadStep(t) ==
    \/ AcquireWrite(t)
    \/ AcquireRead(t)
    \/ RegisterBody(t)
    \/ UnregisterBody(t)
    \/ ListBody(t)
    \/ CountBody(t)
    \/ HasPluginBody(t)
    \/ EnabledCountBody(t)
    \/ Release(t)
    \/ SweepStep(t)
    \/ SweepReturn(t)

\* The registry under a fair scheduler: a thread that can go on does.
SpecRegFair == SpecReg /\ \A t \in Threads : WF_vars(ThreadStep(t))

\* ------------------------------------------------------- validator actions
\* The validators are pure: the input is drawn in the initial state and each
\* action applies one of them to it.

ValCall(out) ==
    /\ vout = NoCall
    /\ vout' = out
    /\ UNCHANGED <<plat, vin, storeVars, regVars>>

ValidatePluginId == ValCall([op |-> "validate_plugin_id", res |-> validate_plugin_id(vin)])

ValidateCacheKey == ValCall([op |-> "validate_cache_key", res |-> validate_cache_key(vin)])

ValidateConfigName == ValCall([op |-> "validate_config_name", res |-> validate_config_name(vin)])

\* read_cache / write_cache up to the join: the key is validated, joined onto
\* the cache directory of a valid plugin id, and the result resolved.
JoinCacheKey ==
    \E id \in {<<"p">>, TestPluginId} :
        ValCall([op |-> "join_cache_key", id |-> id, res |-> validate_cache_key(vin),
                 path |-> Normalize(JoinPath(PluginCacheDir(id, plat), vin, plat))])

InitVal ==
    /\ plat \in Platforms
    /\ vin \in ValidatorInputs
    /\ vout = NoCall
    /\ InitIdleStore
    /\ InitIdleReg

NextVal ==
    \/ ValidatePluginId
    \/ ValidateCacheKey
    \/ ValidateConfigName
    \/ JoinCacheKey

\* The validators, applied to every input string.
SpecVal == InitVal /\ [][NextVal]_vars

\* ------------------------------------------------- concurrent config calls
\* Threads calling save_config and load_config on one VoltPluginAPI.  The
\* only lock is the read lock get_plugin_config_dir takes on the state and
\* drops as it returns: readers do not exclude each other, and nothing is held
\* across the file system calls, each of which is a step of its own.

\* The (plugin id, config name) pairs of the concurrent calls.
ConcConfigArgs == {<< <<"p">>, <<"s">> >>, << <<"q">>, <<"s">> >>, << DotDot, <<"s">> >>}

ConcCalls ==
    {[op |-> "save_config", id |-> a[1], name |-> a[2], config |-> doc] : a \in ConcConfigArgs, doc \in StoreDocuments}
      \cup {[op |-> "load_config", id |-> a[1], name |-> a[2]] : a \in ConcConfigArgs}

ConcUnchanged == UNCHANGED <<plat, valVars, last, cache_log, calls, plugins, lock_writer, lock_readers, swept, seq_plugins, seq_ret>>

\* The path the call in c reads or writes.
ConfigPath(c) == JoinPath(PluginConfigDir(c.id, plat), ConfigFileName(c.name), plat)

\* A thread calls save_config or load_config.
ConcCall(t) ==
    /\ pc[t] = "idle"
    /\ reg_calls < MaxRegCalls
    /\ \E c \in ConcCalls : cur' = [cur EXCEPT ![t] = c]
    /\ pc' = [pc EXCEPT ![t] = "resolve"]
    /\ ret' = [ret EXCEPT ![t] = NoRet]
    /\ reg_calls' = reg_calls + 1
    /\ UNCHANGED <<fs, config_log>>
    /\ ConcUnchanged

\* validate_config_name and get_plugin_config_dir: an error returns, success
\* goes on to the file.
ConcResolve(t) ==
    LET v == validate_config_name(cur[t].name)
        d == get_plugin_config_dir(fs, cur[t].id, plat)
        r == IF ~v.ok THEN [res |-> v, fs |-> fs] ELSE d
    IN  /\ pc[t] = "resolve"
        /\ fs' = r.fs
        /\ ret' = [ret EXCEPT ![t] = IF r.res.ok THEN NoRet ELSE r.res]
        /\ pc' = [pc EXCEPT ![t] = IF ~r.res.ok THEN "idle"
                                   ELSE IF cur[t].op = "save_config" THEN "create" ELSE "exists"]
        /\ UNCHANGED <<cur, config_log, reg_calls>>
        /\ ConcUnchanged

\* save_config, std::fs::write: File::create
SaveCreate(t) ==
    LET w == file_create(fs, ConfigPath(cur[t]))
    IN  /\ pc[t] = "create"
        /\ fs' = w.fs
        /\ ret' = [ret EXCEPT ![t] = IF w.ok THEN NoRet ELSE Err("Failed to write config")]
        /\ pc' = [pc EXCEPT ![t] = IF w.ok THEN "write" ELSE "idle"]
        /\ UNCHANGED <<cur, config_log, reg_calls>>
        /\ ConcUnchanged

\* save_config, std::fs::write: write_all, then Ok(())
SaveWriteAll(t) ==
    LET w == write_all(fs, ConfigPath(cur[t]), to_string_pretty(cur[t].config))
        a == <<cur[t].id, cur[t].name>>
    IN  /\ pc[t] = "write"
        /\ fs' = w.fs
        /\ ret' = [ret EXCEPT ![t] = IF w.ok THEN Ok ELSE Err("Failed to write config")]
        /\ config_log' = IF w.ok /\ a \in DOMAIN config_log
                          THEN [config_log EXCEPT ![a] = Saved(cur[t].config, config_log[a].st = "saved")]
                          ELSE config_log
        /\ pc' = [pc EXCEPT ![t] = "idle"]
        /\ UNCHANGED <<cur, reg_calls>>
        /\ ConcUnchanged

\* load_config: config_path.exists(), and the empty document if not
LoadExists(t) ==
    /\ pc[t] = "exists"
    /\ IF PathExists(fs, ConfigPath(cur[t]))
       THEN pc' = [pc EXCEPT ![t] = "read"] /\ ret' = ret
       ELSE pc' = [pc EXCEPT ![t] = "idle"] /\ ret' = [ret EXCEPT ![t] = OkVal(EmptyDocument)]
    /\ UNCHANGED <<fs, cur, config_log, reg_calls>>
    /\ ConcUnchanged

\* load_config: read_to_string and from_str
LoadRead(t) ==
    LET content == fs_read(fs, ConfigPath(cur[t]))
    IN  /\ pc[t] = "read"
        /\ ret' = [ret EXCEPT ![t] = IF content.ok THEN from_str(content.val) ELSE Err("Failed to read config")]
        /\ pc' = [pc EXCEPT ![t] = "idle"]
        /\ UNCHANGED <<fs, cur, config_log, reg_calls>>
        /\ ConcUnchanged

InitConc ==
    /\ plat = "unix"
    /\ InitIdleVal
    /\ InitIdleStore
    /\ InitReg

NextConc ==
    \/ \E t \in Threads : ConcCall(t)
    \/ \E t \in Threads : ConcResolve(t)
    \/ \E t \in Threads : SaveCreate(t)
    \/ \E t \in Threads : SaveWriteAll(t)
    \/ \E t \in Threads : LoadExists(t)
    \/ \E t \in Threads : LoadRead(t)

\* The config store under concurrent callers.
SpecConc == InitConc /\ [][NextConc]_vars

\* ------------------------------------------------------------------ claims

\* What the specification says a PluginId is: 1 to 64 characters, each an
\* ASCII letter, a digit, '-' or '_'.
IsPluginIdShape(str) ==
    /\ Len(str) >= 1
    /\ Len(str) <= 64
    /\ \A i \in 1..Len(str) : str[i] \in AsciiLetters \cup AsciiDigits \cup {"-", "_"}

C2_PluginIdAcceptance ==
    vout.op = "validate_plugin_id" =>
        /\ (ContainsChar(vin, "/") \/ ContainsChar(vin, "\\") \/ vin = Dot \/ vin = DotDot) => ~vout.res.ok
        /\ vout.res.ok <=> IsPluginIdShape(vin)

\* C2 witness: an id of exactly 64 characters was accepted.
C2_Witness ==
    /\ vout.op = "validate_plugin_id"
    /\ Len(vin) = 64
    /\ vout.res.ok

\* The log entry of the last call's (plugin id, cache key) or (plugin id,
\* config name).
LastArgs == <<last.id, last.arg>>

\* C6: read_cache of a key whose most recent write_cache succeeded with data,
\* with no clear_cache of the plugin since, returns exactly data.
C6_CacheRoundTrip ==
    (last.op = "read_cache" /\ cache_log[LastArgs].st = "written") =>
        last.res = OkVal(cache_log[LastArgs].data)

\* C6 witness: the empty blob was written under the key "..k" and read back.
C6_Witness ==
    /\ last.op = "read_cache"
    /\ last.arg = <<".", ".", "k">>
    /\ cache_log[LastArgs] = Written(<<>>)
    /\ last.res = OkVal(<<>>)

Below(f, dir) == {q \in DOMAIN f : PathStartsWith(q, dir) /\ q # dir}

\* C8: after clear_cache succeeds the plugin's cache directory exists and is
\* empty, and read_cache of a key written before the clear and not since
\* fails with the not-found error.
C8_ClearThenNotFound ==
    /\ (last.op = "clear_cache" /\ last.res.ok) =>
          /\ PluginCacheDir(last.id, plat) \in DOMAIN fs
          /\ fs[PluginCacheDir(last.id, plat)] = DirNode
          /\ Below(fs, PluginCacheDir(last.id, plat)) = {}
    /\ (last.op = "read_cache" /\ cache_log[LastArgs].st = "cleared") =>
          last.res = Err("Cache entry not found")

\* C8 witness: a key was written, the cache cleared, and the key read.
C8_Witness ==
    /\ last.op = "read_cache"
    /\ cache_log[LastArgs].st = "cleared"
    /\ last.res = Err("Cache entry not found")

\* C9: with a valid plugin id, load_config of a valid name never saved
\* returns the empty document, and read_cache of a valid key never written
\* returns the not-found error.
C9_MissingConfigVsMissingCache ==
    /\ (last.op = "load_config" /\ validate_plugin_id(last.id).ok /\ validate_config_name(last.arg).ok
          /\ config_log[LastArgs].st = "never") => last.res = OkVal(EmptyDocument)
    /\ (last.op = "read_cache" /\ validate_plugin_id(last.id).ok /\ validate_cache_key(last.arg).ok
          /\ cache_log[LastArgs].st = "never") => last.res = Err("Cache entry not found")

\* C9 witness: a config never saved was loaded as the empty document, in a
\* tree where some other config had been saved.
C9_Witness ==
    /\ last.op = "load_config"
    /\ config_log[LastArgs].st = "never"
    /\ last.res = OkVal(EmptyDocument)
    /\ \E e \in DOMAIN config_log : config_log[e].st = "saved"

\* The last call was made with an argument its validator rejects.
RejectedByValidation ==
    /\ last.op # "none"
    /\ \/ ~validate_plugin_id(last.id).ok
       \/ last.op \in {"read_cache", "write_cache"} /\ ~validate_cache_key(last.arg).ok
       \/ last.op \in {"load_config", "save_config"} /\ ~validate_config_name(last.arg).ok

\* C10: a call rejected by validation returns an error and leaves the tree
\* as it was.
C10_RejectedLeavesTree == [][RejectedByValidation' => (~last'.res.ok /\ fs' = fs)]_vars

\* C10 witness: write_cache with a valid plugin id and an invalid key was
\* rejected, and the plugin's cache directory does not exist.
C10_Witness ==
    /\ last.op = "write_cache"
    /\ validate_plugin_id(last.id).ok
    /\ ~validate_cache_key(last.arg).ok
    /\ ~last.res.ok
    /\ PluginCacheDir(last.id, plat) \notin DOMAIN fs

\* The elements of a sequence.
Range(q) == {q[i] : i \in 1..Len(q)}
NoDuplicates(q) == \A i, j \in 1..Len(q) : q[i] = q[j] => i = j

\* Thread t's call has run its critical section.
Returned(t) == ret[t] # NoRet /\ seq_ret[t] # NoRet

\* What thread t's call returned is what the sequential registry returned:
\* a list of ids holds each id of the sequential registry once.
AgreesWithSequential(t) ==
    IF cur[t].op \in {"list_plugins"} \cup SweepOps
    THEN LET ids == IF pc[t] = "unlock" \/ cur[t].op = "list_plugins" THEN ret[t].val ELSE swept[t].snap
         IN  NoDuplicates(ids) /\ Range(ids) = seq_ret[t].val
    ELSE IF cur[t].op = "register" THEN ret[t].ok = seq_ret[t].ok
    ELSE ret[t] = seq_ret[t]

\* C3: under any interleaving of the threads' calls, the map is the one a
\* sequential registry holds after the same calls in the order of their
\* critical sections, every call returned what it returns in that order, and
\* list_plugins returns no id twice.
C3_RegistryLinearizable ==
    /\ plugins = seq_plugins
    /\ \A x \in DOMAIN plugins : plugins[x].id = x
    /\ \A t \in Threads : Returned(t) => AgreesWithSequential(t)

\* C3 witness: thread 1 has registered "y" and then "x", thread 2 has
\* unregistered "x" after that, and the registry holds "y" alone.
C3_Witness ==
    /\ \A t \in Threads : pc[t] = "idle"
    /\ cur[1].op = "register"
    /\ cur[1].plugin.id = <<"x">>
    /\ cur[2] = [op |-> "unregister", id |-> <<"x">>]
    /\ ret[2] = Ok
    /\ DOMAIN plugins = {<<"y">>}

\* Thread t takes the step that runs the critical section of its call op.
BodyStep(t, op) == pc[t] = "body" /\ cur[t].op = op /\ pc'[t] = "unlock"

\* C4: register(p) succeeds, after it the id is registered and its entry is
\* p, count() is one more if the id was not registered and the same if it
\* was, and the entries under the other ids are unchanged.
C4_RegisterPostcondition ==
    [][\A t \in Threads : BodyStep(t, "register") =>
         LET x == cur[t].plugin.id
         IN  /\ ret'[t].ok
             /\ has_plugin(plugins', x)
             /\ plugins'[x] = cur[t].plugin
             /\ count(plugins') = count(plugins) + (IF has_plugin(plugins, x) THEN 0 ELSE 1)
             /\ \A y \in RegIds \ {x} : /\ has_plugin(plugins', y) <=> has_plugin(plugins, y)
                                        /\ has_plugin(plugins, y) => plugins'[y] = plugins[y]]_vars

\* C4 witness: plugin B has just been registered over plugin A's id, beside
\* another entry.
C4_Witness ==
    \E t \in Threads :
        /\ pc[t] = "unlock"
        /\ cur[t].op = "register"
        /\ ret[t] = RegisterOk(TRUE)
        /\ cur[t].plugin.name = "B"
        /\ plugins[<<"x">>] = cur[t].plugin
        /\ count(plugins) = 2

\* C5: unregister of a registered id succeeds and leaves the id absent and
\* count() one less; unregister of an id that is not registered fails with
\* the not-found error and leaves the registry as it was.
C5_UnregisterPostcondition ==
    [][\A t \in Threads : BodyStep(t, "unregister") =>
         LET x == cur[t].id
         IN  IF has_plugin(plugins, x)
             THEN /\ ret'[t] = Ok
                  /\ ~has_plugin(plugins', x)
                  /\ count(plugins') = count(plugins) - 1
             ELSE /\ ret'[t] = NotFound(x)
                  /\ plugins' = plugins
                  /\ count(plugins') = count(plugins)]_vars

\* C5 witness: unregister of an absent id has just failed with not-found on
\* a registry that holds another id.
C5_Witness ==
    \E t \in Threads :
        /\ pc[t] = "unlock"
        /\ cur[t].op = "unregister"
        /\ ret[t] = NotFound(cur[t].id)
        /\ count(plugins) = 1


\* The call the step makes: the store's call counter moves with every call.
StoreStep(ops) == calls' = calls + 1 /\ last'.op \in ops

\* The entry name of the directory dir exists in the tree f and resolves,
\* links followed, to a path that is not below the directory's resolved path.
Escapes(f, dir, name) ==
    LET target == canonicalize(f, Append(dir, name))
        base == canonicalize(f, dir)
    IN  target.ok /\ base.ok /\ ~PathStartsWith(target.path, base.path)

\* The nodes of the tree g that the tree f does not hold as they are.
Touched(f, g) == {q \in DOMAIN g : q \notin DOMAIN f \/ g[q] # f[q]}

\* C11: read_cache of a key whose entry exists in the plugin's cache
\* directory and resolves outside the directory's resolved path fails with the
\* confinement error, whatever else the tree holds.
C11_ReadCacheConfined ==
    [][(/\ StoreStep({"read_cache"})
        /\ validate_plugin_id(last'.id).ok
        /\ validate_cache_key(last'.arg).ok
        /\ Escapes(fs, PluginCacheDir(last'.id, plat), last'.arg))
       => /\ last'.res = Err("Cache path is outside plugin cache directory")
          /\ fs' = fs]_vars

\* C11 witness: the key read is a link to the outside file of bytes, and the
\* read failed with the confinement error.
C11_Witness ==
    /\ last.op = "read_cache"
    /\ last.res = Err("Cache path is outside plugin cache directory")
    /\ Append(PluginCacheDir(last.id, plat), last.arg) \in DOMAIN fs
    /\ fs[Append(PluginCacheDir(last.id, plat), last.arg)] = LinkNode(OutsideBlob)
    /\ fs[OutsideBlob] = FileNode(OutsideBytes)

\* C12: write_cache creates or changes no file outside the resolved path of
\* the plugin's cache directory.
C12_WriteCacheConfined ==
    [][StoreStep({"write_cache"}) =>
         LET base == canonicalize(fs', PluginCacheDir(last'.id, plat))
         IN  \A q \in Touched(fs, fs') :
                 fs'[q].kind = "file" => (base.ok /\ PathStartsWith(q, base.path))]_vars

\* C13: load_config and save_config of a name whose file resolves outside the
\* resolved path of the plugin's config directory fail and leave the tree as
\* it was.
C13_ConfigConfined ==
    [][(/\ StoreStep({"load_config", "save_config"})
        /\ validate_plugin_id(last'.id).ok
        /\ validate_config_name(last'.arg).ok
        /\ Escapes(fs, PluginConfigDir(last'.id, plat), ConfigFileName(last'.arg)))
       => /\ ~last'.res.ok
          /\ fs' = fs]_vars


\* C14: clear_cache with a valid plugin id whose cache directory has never
\* existed succeeds and leaves the tree as it was.
C14_ClearMissingIsNoOp ==
    [][(/\ StoreStep({"clear_cache"})
        /\ validate_plugin_id(last'.id).ok
        /\ PluginCacheDir(last'.id, plat) \notin DOMAIN fs)
       => /\ last'.res = Ok
          /\ fs' = fs]_vars


\* C15: every id an entry of the registry is stored under is an id that
\* validate_plugin_id accepts.
C15_RegisteredIdsValid == \A x \in DOMAIN plugins : validate_plugin_id(x).ok


\* Thread t's sweep has returned.
SweepReturned(t) == cur[t].op \in SweepOps /\ pc[t] = "idle" /\ ret[t] # NoRet

\* C16: when initialize_all or shutdown_all returns, the lifecycle hook of
\* every id that was registered when the sweep started has been invoked, and
\* no id was left unprocessed.
C16_SweepInvokesHooks ==
    \A t \in Threads :
        SweepReturned(t) =>
            /\ Range(swept[t].done) = Range(swept[t].snap)
            /\ Range(swept[t].invoked) = Range(swept[t].snap)


\* The documents a load_config of thread t may return: the one last saved
\* under its (plugin id, config name), the empty document if none was, and
\* the one of every save_config of that pair that is under way.
WholeDocuments(t) ==
    LET a == <<cur[t].id, cur[t].name>>
    IN  (IF config_log[a].st = "saved" THEN {config_log[a].doc} ELSE {EmptyDocument})
          \cup {cur[u].config : u \in {x \in Threads : /\ cur[x].op = "save_config"
                                                     /\ pc[x] \in {"create", "write"}
                                                     /\ <<cur[x].id, cur[x].name>> = a}}

\* C17: a load_config that runs beside save_config calls returns a whole
\* document, the one saved before or the new one, and never an error.
C17_LoadSeesWholeDocument ==
    [][\A t \in Threads :
          (cur[t].op = "load_config" /\ pc[t] \in {"exists", "read"} /\ pc'[t] = "idle")
             => /\ ret'[t].ok
                /\ ret'[t].val \in WholeDocuments(t)]_vars


AccessorOps == {"get_plugin_data_dir", "get_plugin_cache_dir", "get_plugin_config_dir"}

\* The directory layout the specification gives: <app_data_dir>/plugins/<id>,
\* <app_data_dir>/cache/plugins/<id>, <app_data_dir>/config/plugins/<id>.
LayoutDir(op, id) ==
    LET root == <<"a", "p", "p">>
        plugins_ == <<"p", "l", "u", "g", "i", "n", "s">>
    IN  CASE op = "get_plugin_data_dir" -> <<root, plugins_, id>>
          [] op = "get_plugin_cache_dir" -> <<root, <<"c", "a", "c", "h", "e">>, plugins_, id>>
          [] op = "get_plugin_config_dir" -> <<root, <<"c", "o", "n", "f", "i", "g">>, plugins_, id>>

\* The accessor op, called again on the tree f.
Repeated(op, f, id) ==
    CASE op = "get_plugin_data_dir" -> get_plugin_data_dir(f, id, plat)
      [] op = "get_plugin_cache_dir" -> get_plugin_cache_dir(f, id, plat)
      [] op = "get_plugin_config_dir" -> get_plugin_config_dir(f, id, plat)

\* C18: with a valid plugin id each accessor returns the directory of the
\* layout, the directory exists when it returns, nothing that existed is
\* changed, a directory that existed makes the call change nothing, and the
\* call repeated returns the same path and changes nothing.
C18_AccessorIdempotent ==
    [][(StoreStep(AccessorOps) /\ validate_plugin_id(last'.id).ok) =>
         LET dir == LayoutDir(last'.op, last'.id)
         IN  /\ last'.res = OkVal(dir)
             /\ dir \in DOMAIN fs'
             /\ fs'[dir] = DirNode
             /\ \A q \in DOMAIN fs : q \in DOMAIN fs' /\ fs'[q] = fs[q]
             /\ dir \in DOMAIN fs => fs' = fs
             /\ Repeated(last'.op, fs', last'.id) = [res |-> last'.res, fs |-> fs']]_vars

\* C18 witness: get_plugin_cache_dir returned a directory that held a cache
\* entry already, and the entry is still there.
C18_Witness ==
    /\ last.op = "get_plugin_cache_dir"
    /\ last.res = OkVal(LayoutDir("get_plugin_cache_dir", last.id))
    /\ \E q \in Below(fs, LayoutDir("get_plugin_cache_dir", last.id)) : fs[q].kind = "file"


\* C19: a step changes the registry only as the critical section of a
\* register or an unregister: an id becomes present only by a successful
\* register of that id, becomes absent only by a successful unregister of that
\* id, and its entry changes only by a register of that id; list_plugins,
\* count, enabled_count, has_plugin and the sweeps change nothing.
C19_OnlyRegisterAndUnregisterChange ==
    [][\A x \in RegIds :
          /\ (~has_plugin(plugins, x) /\ has_plugin(plugins', x)) =>
                \E t \in Threads : BodyStep(t, "register") /\ cur[t].plugin.id = x /\ ret'[t].ok
          /\ (has_plugin(plugins, x) /\ ~has_plugin(plugins', x)) =>
                \E t \in Threads : BodyStep(t, "unregister") /\ cur[t].id = x /\ ret'[t] = Ok
          /\ (has_plugin(plugins, x) /\ has_plugin(plugins', x) /\ plugins'[x] # plugins[x]) =>
                \E t \in Threads : BodyStep(t, "register") /\ cur[t].plugin.id = x /\ ret'[t].ok]_vars

\* C19 witness: a sweep has gone through a registry of two entries and has
\* returned, and the registry still holds the two.
C19_Witness ==
    \E t \in Threads :
        /\ SweepReturned(t)
        /\ Len(swept[t].done) = 2
        /\ DOMAIN plugins = Range(swept[t].snap)


\* What the specification says a CacheKey is: 1 to 255 characters, no ':',
\* no '/' and no '\', and not "." or "..".
IsCacheKeyShape(str) ==
    /\ Len(str) >= 1
    /\ Len(str) <= 255
    /\ \A i \in 1..Len(str) : str[i] \notin {":", "/", "\\"}
    /\ str # <<".">>
    /\ str # <<".", ".">>

\* C20: validate_cache_key accepts a string if and only if it has 1 to 255
\* characters, none of them ':', '/' or '\', and is not "." or "..".
C20_CacheKeyAcceptance == vout.op = "validate_cache_key" => (vout.res.ok <=> IsCacheKeyShape(vin))


\* The alphabet of a ConfigName, and no dot at either end.
IsConfigNameAlphabet(str) ==
    /\ \A i \in 1..Len(str) : str[i] \in AsciiLetters \cup AsciiDigits \cup {"-", "_", "."}
    /\ str # <<>> => (str[1] # "." /\ str[Len(str)] # ".")

\* C21: validate_config_name accepts a string if and only if
\* validate_cache_key accepts it and it is made of ASCII letters, digits, '-',
\* '_' and '.' with no '.' at either end; ".hidden", "name.", "." and ".." are
\* rejected.
C21_ConfigNameAcceptance ==
    vout.op = "validate_config_name" =>
        /\ vout.res.ok <=> (validate_cache_key(vin).ok /\ IsConfigNameAlphabet(vin))
        /\ vin \in {<<".", "h", "i", "d", "d", "e", "n">>, <<"n", "a", "m", "e", ".">>, <<".">>, <<".", ".">>} => ~vout.res.ok

\* C21 witness: a name with a dot inside was accepted.
C21_Witness ==
    /\ vout.op = "validate_config_name"
    /\ vout.res.ok
    /\ Len(vin) = 3
    /\ vin[2] = "."


\* Thread t holds a guard of the registry lock.
Holding(t) == lock_writer = t \/ t \in lock_readers

Changed(f, g) == Touched(f, g) \cup (DOMAIN f \ DOMAIN g)

\* The directory a mutating operation of a plugin works in, and the plugin's
\* directory under the other root kind.
OwnDir(op, id) == IF op = "save_config" THEN PluginConfigDir(id, plat) ELSE PluginCacheDir(id, plat)
OtherDir(op, id) == IF op = "save_config" THEN PluginCacheDir(id, plat) ELSE PluginConfigDir(id, plat)

\* The plugin ids of the store calls that validate_plugin_id accepts.
ValidStoreIds == {id \in StorePluginIds : validate_plugin_id(id).ok}

SnapshotStep(t) == cur[t].op \in SweepOps /\ pc[t] = "body" /\ pc'[t] = "unlock"

\* The ids that were registered when thread t's sweep took its snapshot.
RegisteredAtSnapshot(t) == seq_ret[t].val

IsPrefix(q, r) == Len(q) <= Len(r) /\ SubSeq(r, 1, Len(q)) = q

\* C24: a sweep takes one snapshot, which holds each id registered at that
\* moment once; it iterates holding no guard of the registry's lock; the ids
\* it has processed are at every moment the first ids of the snapshot, and
\* when it returns they are the whole snapshot, each id once: every id
\* processed was registered at the snapshot and no other id is processed,
\* whatever is registered or unregistered meanwhile.
C24_SweepProcessesSnapshot ==
    /\ [][\A t \in Threads :
            /\ SnapshotStep(t) =>
                  /\ NoDuplicates(ret'[t].val)
                  /\ Range(ret'[t].val) = DOMAIN plugins
                  /\ RegisteredAtSnapshot(t)' = DOMAIN plugins
            /\ (pc[t] = "unlock" /\ pc'[t] = "sweep") =>
                  swept'[t] = [snap |-> ret[t].val, done |-> <<>>, invoked |-> <<>>]
            /\ (pc[t] = "sweep" /\ pc'[t] \in {"sweep", "idle"}) =>
                  /\ swept'[t].snap = swept[t].snap
                  /\ RegisteredAtSnapshot(t)' = RegisteredAtSnapshot(t)]_vars
    /\ [](\A t \in Threads :
            /\ pc[t] = "sweep" =>
                  /\ ~Holding(t)
                  /\ NoDuplicates(swept[t].snap)
                  /\ Range(swept[t].snap) = RegisteredAtSnapshot(t)
                  /\ IsPrefix(swept[t].done, swept[t].snap)
            /\ SweepReturned(t) =>
                  /\ ~Holding(t)
                  /\ swept[t].done = swept[t].snap
                  /\ NoDuplicates(swept[t].done)
                  /\ Range(swept[t].done) = RegisteredAtSnapshot(t))

\* C24 witness: a sweep has returned having processed an id, and the
\* registry holds an id it did not process: one registered after its
\* snapshot.
C24_Witness ==
    \E t \in Threads :
        /\ SweepReturned(t)
        /\ swept[t].done # <<>>
        /\ DOMAIN plugins \ Range(swept[t].done) # {}
        /\ Range(swept[t].done) \subseteq DOMAIN plugins

====
